---------------------------- MODULE Spec2Model ----------------------------
(***************************************************************************)
(* CAN-to-L91 motor bridge: the L91Motor frame encoder (l91_motor.cpp) and *)
(* the command bridge processCANMessage (main.cpp).                        *)
(*                                                                         *)
(* The firmware is single-threaded.  Every encoder entry point and the bus *)
(* handler is one action that models the whole call: the frame it builds,  *)
(* what the serial transport accepts, the transport and delay events in    *)
(* the order the code performs them, and the value returned.  The callee's *)
(* locals (cmd[], message, speed) live until the call returns; Return and  *)
(* LoopRest pop them.                                                      *)
(*                                                                         *)
(* A float speed is modelled as an exact rational [num, den].  The inputs  *)
(* are chosen so that float arithmetic computes the same truncated product *)
(* as the rational: k/CoarseDen and n/FineDen with a dyadic denominator    *)
(* and numerator*3283 < 2^24 are exact in binary32, and for b/127 the      *)
(* product b*3283/127 is at least 1/127 away from every integer unless     *)
(* b = 127, far more than binary32's rounding error at that magnitude.     *)
(***************************************************************************)
EXTENDS Integers, Sequences, FiniteSets, TLC

VARIABLES
    pc,         \* "idle": between calls; "called": an encoder call has run;
                \* "polled": processCANMessage has run
    message,    \* processCANMessage's local twai_message_t (NoMessage outside it)
    calls,      \* the encoder functions entered during the handler, in order
    cmd,        \* the buffer handed to serial->write (<<>> when nothing was written)
    written,    \* what serial->write returned
    result,     \* the value returned by the outermost encoder function
    events,     \* the transport and delay events of the handler, in order
    settleDue,  \* ms still to elapse of the settle window of the last command
                \* that was written in full
    early,      \* settleDue at the moment of this handler's write
    sentBefore  \* a command had been written in full before this handler ran

vars == <<pc, message, calls, cmd, written, result, events, settleDue, early, sentBefore>>

---------------------------------------------------------------------------
(* Bounds of the checked input space *)

\* speeds k/CoarseDen, -CoarseDen <= k <= CoarseDen, cover [-1.0, 1.0]
CoarseDen == 16
\* speeds n/FineDen, |n| <= FineMax, lie closer together than one code unit
FineDen == 4096
FineMax == 12
\* bus identifiers 0 .. MaxIdentifier
MaxIdentifier == 31
\* payload lengths 0 .. MaxDlc
MaxDlc == 2

---------------------------------------------------------------------------
(* Program constants *)

MOTOR_12_CAN_ID == 12
MOTOR_13_CAN_ID == 13
MOTOR_14_CAN_ID == 14

\* delay(10) at the end of sendCommand
SendSettleMs == 10
\* delay(200) in activateMotor
ActivateSettleMs == 200
\* delay(100) in deactivateMotor
DeactivateSettleMs == 100
\* delay(200) in loadParams
LoadParamsSettleMs == 200
\* the scale factor 3283.0f of moveJog
SpeedScale == 3283
\* twai_receive(&message, pdMS_TO_TICKS(10))
PollTimeoutMs == 10
\* delay(10) at the end of loop()
LoopDelayMs == 10
\* delay(2000) of loop()'s servo move
ServoDelayMs == 2000

Bytes == 0 .. 255

---------------------------------------------------------------------------
(* float speeds as rationals *)

Rat(n, d) == [num |-> n, den |-> d]

RatLt(a, b) == a.num * b.den < b.num * a.den

RatEq(a, b) == a.num * b.den = b.num * a.den

\* C++ conversion float -> integer: the fractional part is discarded
TruncDiv(a, b) == IF a >= 0 THEN a \div b ELSE -((-a) \div b)

Max0(x) == IF x > 0 THEN x ELSE 0

---------------------------------------------------------------------------
(* L91Motor::sendCommand *)

Flush == [ev |-> "flush", arg |-> 0]
Write(n) == [ev |-> "write", arg |-> n]
Delay(ms) == [ev |-> "delay", arg |-> ms]

\* a plausible bug: a short write is retried with the rest of the frame and
\* the call reports success
SendCommandRetry(len, n) ==
    IF n # len
    THEN [ok |-> TRUE,
          events |-> <<Flush, Write(n), Write(len - n), Flush, Delay(SendSettleMs)>>]
    ELSE [ok |-> TRUE, events |-> <<Flush, Write(n), Flush, Delay(SendSettleMs)>>]

\* a plausible bug: the settle delay is taken before the frame is written
SendCommandDelayFirst(len, n) ==
    IF n # len
    THEN [ok |-> FALSE, events |-> <<Flush, Delay(SendSettleMs), Write(n)>>]
    ELSE [ok |-> TRUE, events |-> <<Flush, Delay(SendSettleMs), Write(n), Flush>>]

\* sendCommand(cmd, len) when serial->write accepts n bytes
SendCommand(len, n) ==
    IF n # len
    THEN [ok |-> FALSE, events |-> <<Flush, Write(n)>>]
    ELSE [ok |-> TRUE, events |-> <<Flush, Write(n), Flush, Delay(SendSettleMs)>>]

---------------------------------------------------------------------------
(* The frames *)

ActivateCmd(can_id) ==
    <<\H41, \H54, \H00, \H07, \He8, can_id, \H01, \H00, \H0d, \H0a>>

\* a plausible bug: deactivate sends the activate payload
DeactivateCmdAsActivate(can_id) == ActivateCmd(can_id)

DeactivateCmd(can_id) ==
    <<\H41, \H54, \H00, \H07, \He8, can_id, \H00, \H00, \H0d, \H0a>>

LoadParamsCmd(can_id) ==
    <<\H41, \H54, \H20, \H07, \He8, can_id, \H08, \H00,
      \Hc4, \H00, \H00, \H00, \H00, \H00, \H00, \H0d, \H0a>>

\* conversion of an int to int16_t
WrapInt16(v) == ((v + 32768) % 65536) - 32768

\* a plausible bug: the product is rounded to nearest instead of truncated
ScaledSpeedRounded(speed) ==
    IF speed.num >= 0
    THEN (2 * speed.num * SpeedScale + speed.den) \div (2 * speed.den)
    ELSE -((2 * (-speed.num) * SpeedScale + speed.den) \div (2 * speed.den))

\* (int16_t)(speed * 3283.0f)
ScaledSpeed(speed) == TruncDiv(speed.num * SpeedScale, speed.den)

\* a plausible bug: the two offsets are swapped
SpeedValSwapped(speed) ==
    IF speed.num = 0 THEN \H7fff
    ELSE IF speed.num > 0 THEN WrapInt16(\H7fff + ScaledSpeed(speed))
    ELSE WrapInt16(\H8000 + ScaledSpeed(speed))

\* a plausible bug: the magnitude is added in the negative branch
SpeedValMagnitude(speed) ==
    IF speed.num = 0 THEN \H7fff
    ELSE IF speed.num > 0 THEN WrapInt16(\H8000 + ScaledSpeed(speed))
    ELSE WrapInt16(\H7fff - ScaledSpeed(speed))

\* int16_t speed_val of moveJog
SpeedVal(speed) ==
    IF speed.num = 0 THEN \H7fff
    ELSE IF speed.num > 0 THEN WrapInt16(\H8000 + ScaledSpeed(speed))
    ELSE WrapInt16(\H7fff + ScaledSpeed(speed))

\* (speed_val >> 8) & 0xFF, with >> the arithmetic shift of a signed int
HighByte(v) == ((v - (v % 256)) \div 256) % 256

\* speed_val & 0xFF
LowByte(v) == v % 256

\* a plausible bug: the speed code is stored low byte first
MoveJogCmdLittleEndian(can_id, speed, flag) ==
    <<\H41, \H54, \H90, \H07, \He8, can_id, \H08, \H05, \H70, \H00, \H00, \H07,
      flag, LowByte(SpeedVal(speed)), HighByte(SpeedVal(speed)), \H0d, \H0a>>

MoveJogCmd(can_id, speed, flag) ==
    <<\H41, \H54, \H90, \H07, \He8, can_id, \H08, \H05, \H70, \H00, \H00, \H07,
      flag, HighByte(SpeedVal(speed)), LowByte(SpeedVal(speed)), \H0d, \H0a>>

\* a plausible bug: every moveMotor command carries the move flag
MoveFlagAlways(speed) == 1

\* uint8_t flag = (speed == 0.0f) ? 0 : 1  of moveMotor
MoveFlag(speed) == IF speed.num = 0 THEN 0 ELSE 1

---------------------------------------------------------------------------
(* Settle accounting *)

RECURSIVE TotalDelay(_)
TotalDelay(evs) ==
    IF evs = <<>> THEN 0
    ELSE (IF Head(evs).ev = "delay" THEN Head(evs).arg ELSE 0) + TotalDelay(Tail(evs))

\* the delays each operation performs after a full write
SettleMs(fn) ==
    CASE fn = "activateMotor" -> SendSettleMs + ActivateSettleMs
      [] fn = "deactivateMotor" -> SendSettleMs + DeactivateSettleMs
      [] fn = "loadParams" -> SendSettleMs + LoadParamsSettleMs
      [] OTHER -> SendSettleMs

---------------------------------------------------------------------------
(* State *)

NoMessage == [ok |-> FALSE, identifier |-> 0, dlc |-> 0, data0 |-> 0]

Call(fn, can_id, speed, flag) ==
    [fn |-> fn, can_id |-> can_id, speed |-> speed, flag |-> flag]

NoSpeed == Rat(0, 1)

Init ==
    /\ pc = "idle"
    /\ message = NoMessage
    /\ calls = <<>>
    /\ cmd = <<>>
    /\ written = 0
    /\ result = FALSE
    /\ events = <<>>
    /\ settleDue = 0
    /\ early = 0
    /\ sentBefore = FALSE

\* One encoder operation run to its return: `entered` are the functions it
\* enters, `frame` the buffer it passes to sendCommand, `post` the delays
\* after sendCommand, `due` the settle time still open when the operation
\* starts.  serial->write accepts any n of the frame's bytes.
Transmit(entered, frame, post, due) ==
    \E n \in 0 .. Len(frame) :
        LET sent == SendCommand(Len(frame), n)
            evs == sent.events \o post
        IN  /\ calls' = entered
            /\ cmd' = frame
            /\ written' = n
            /\ result' = sent.ok
            /\ events' = evs
            /\ early' = due
            /\ settleDue' = IF n = Len(frame)
                            THEN Max0(SettleMs(entered[1].fn) - TotalDelay(evs))
                            ELSE Max0(due - TotalDelay(evs))

---------------------------------------------------------------------------
(* Inputs *)

CanIds == {MOTOR_12_CAN_ID, MOTOR_13_CAN_ID, MOTOR_14_CAN_ID, 1, 255}

Speeds ==
    {Rat(k, CoarseDen) : k \in (-CoarseDen) .. CoarseDen}
        \cup {Rat(n, FineDen) : n \in (-FineMax) .. FineMax}

Flags == {0, 1}

---------------------------------------------------------------------------
(* L91Motor's operations *)

ActivateMotor ==
    /\ pc = "idle"
    /\ pc' = "called"
    /\ \E can_id \in CanIds :
        Transmit(<<Call("activateMotor", can_id, NoSpeed, 0)>>, ActivateCmd(can_id),
                    <<Delay(ActivateSettleMs)>>, settleDue)
    /\ UNCHANGED <<message, sentBefore>>

DeactivateMotor ==
    /\ pc = "idle"
    /\ pc' = "called"
    /\ \E can_id \in CanIds :
        Transmit(<<Call("deactivateMotor", can_id, NoSpeed, 0)>>, DeactivateCmd(can_id),
                    <<Delay(DeactivateSettleMs)>>, settleDue)
    /\ UNCHANGED <<message, sentBefore>>

LoadParams ==
    /\ pc = "idle"
    /\ pc' = "called"
    /\ \E can_id \in CanIds :
        Transmit(<<Call("loadParams", can_id, NoSpeed, 0)>>, LoadParamsCmd(can_id),
                    <<Delay(LoadParamsSettleMs)>>, settleDue)
    /\ UNCHANGED <<message, sentBefore>>

MoveJog ==
    /\ pc = "idle"
    /\ pc' = "called"
    /\ \E can_id \in CanIds, speed \in Speeds, flag \in Flags :
        Transmit(<<Call("moveJog", can_id, speed, flag)>>,
                    MoveJogCmd(can_id, speed, flag), <<>>, settleDue)
    /\ UNCHANGED <<message, sentBefore>>

StopMotor ==
    /\ pc = "idle"
    /\ pc' = "called"
    /\ \E can_id \in CanIds :
        Transmit(<<Call("stopMotor", can_id, NoSpeed, 0),
                      Call("moveJog", can_id, Rat(0, 1), 0)>>,
                    MoveJogCmd(can_id, Rat(0, 1), 0), <<>>, settleDue)
    /\ UNCHANGED <<message, sentBefore>>

\* moveMotor(can_id, speed), shared by the direct call and the bridge
MoveMotorCalls(can_id, speed) ==
    <<Call("moveMotor", can_id, speed, 0),
      Call("moveJog", can_id, speed, MoveFlag(speed))>>

MoveMotor ==
    /\ pc = "idle"
    /\ pc' = "called"
    /\ \E can_id \in CanIds, speed \in Speeds :
        Transmit(MoveMotorCalls(can_id, speed),
                    MoveJogCmd(can_id, speed, MoveFlag(speed)), <<>>, settleDue)
    /\ UNCHANGED <<message, sentBefore>>

\* the caller takes the result; the operation's locals are gone
Return ==
    /\ pc = "called"
    /\ pc' = "idle"
    /\ calls' = <<>>
    /\ cmd' = <<>>
    /\ written' = 0
    /\ result' = FALSE
    /\ events' = <<>>
    /\ early' = 0
    /\ sentBefore' = (sentBefore \/ result)
    /\ UNCHANGED <<message, settleDue>>


---------------------------------------------------------------------------
(* The command bridge *)

Identifiers == 0 .. MaxIdentifier

Dlcs == 0 .. MaxDlc

\* a plausible bug: the payload length is not checked
AcceptsAnyLength(msg) ==
    LET motor_id == msg.identifier % 16
    IN  motor_id >= MOTOR_12_CAN_ID /\ motor_id <= MOTOR_14_CAN_ID

\* uint8_t motor_id = message.identifier & 0x0F;
\* motor_id >= 0x0C && motor_id <= 0x0E && message.data_length_code >= 1
Accepts(msg) ==
    LET motor_id == msg.identifier % 16
    IN  motor_id >= MOTOR_12_CAN_ID /\ motor_id <= MOTOR_14_CAN_ID /\ msg.dlc >= 1

\* (float)message.data[0]: data[] is uint8_t, the conversion yields 0 .. 255
PayloadValue(b) == b

\* speed = ((float)message.data[0]) / 127.0f, then the two clamps
BridgeSpeed(b) ==
    LET speed == Rat(PayloadValue(b), 127)
        upper == IF RatLt(Rat(1, 1), speed) THEN Rat(1, 1) ELSE speed
    IN  IF RatLt(upper, Rat(-1, 1)) THEN Rat(-1, 1) ELSE upper

\* twai_receive timed out: nothing is parsed, nothing is sent
PollTimeout ==
    /\ pc = "idle"
    /\ pc' = "polled"
    /\ message' = NoMessage
    /\ calls' = <<>>
    /\ cmd' = <<>>
    /\ written' = 0
    /\ result' = FALSE
    /\ events' = <<>>
    /\ early' = 0
    /\ settleDue' = Max0(settleDue - PollTimeoutMs)
    /\ UNCHANGED sentBefore

\* processCANMessage with a frame received after `wait` ms
ProcessCANMessage ==
    /\ pc = "idle"
    /\ pc' = "polled"
    /\ UNCHANGED sentBefore
    /\ \E identifier \in Identifiers, dlc \in Dlcs, data0 \in Bytes,
          wait \in {0, PollTimeoutMs - 1} :
        LET msg == [ok |-> TRUE, identifier |-> identifier, dlc |-> dlc,
                    data0 |-> data0]
            motor_id == identifier % 16
            speed == BridgeSpeed(data0)
            due == Max0(settleDue - wait)
        IN  /\ message' = msg
            /\ IF Accepts(msg)
               THEN Transmit(MoveMotorCalls(motor_id, speed),
                             MoveJogCmd(motor_id, speed, MoveFlag(speed)), <<>>, due)
               ELSE /\ calls' = <<>>
                    /\ cmd' = <<>>
                    /\ written' = 0
                    /\ result' = FALSE
                    /\ events' = <<>>
                    /\ early' = 0
                    /\ settleDue' = due

\* the rest of loop(): the sensor print, the servo move every 5 s, delay(10)
LoopRest ==
    /\ pc = "polled"
    /\ pc' = "idle"
    /\ message' = NoMessage
    /\ calls' = <<>>
    /\ cmd' = <<>>
    /\ written' = 0
    /\ result' = FALSE
    /\ events' = <<>>
    /\ early' = 0
    /\ sentBefore' = (sentBefore \/ result)
    /\ \E servo \in BOOLEAN :
        settleDue' = Max0(settleDue - (LoopDelayMs + IF servo THEN ServoDelayMs ELSE 0))

---------------------------------------------------------------------------

Next ==
    \/ ActivateMotor
    \/ DeactivateMotor
    \/ LoadParams
    \/ MoveJog
    \/ StopMotor
    \/ MoveMotor
    \/ Return
    \/ PollTimeout
    \/ ProcessCANMessage
    \/ LoopRest

Spec == Init /\ [][Next]_vars


---------------------------------------------------------------------------
(* Observations on a state *)

\* an encoder operation has run in this handler
Called == calls # <<>>

\* the operation that was entered first
Entry == calls[1]

\* the moveJog call the handler ended in
Jog == calls[Len(calls)]

Jogged == Called /\ Jog.fn = "moveJog"

\* the 16-bit speed code of a jog frame, read big-endian as unsigned
Code16 == cmd[14] * 256 + cmd[15]

\* the unsigned 16-bit code moveJog computes for a speed
CodeOf(speed) == SpeedVal(speed) % 65536

SameRegion(a, b) == (a.num > 0 /\ b.num > 0) \/ (a.num < 0 /\ b.num < 0)

WriteCount == Cardinality({i \in 1 .. Len(events) : events[i].ev = "write"})

\* payload byte 0 read as a signed 8-bit integer
Signed8(b) == IF b >= 128 THEN b - 256 ELSE b

\* clamp(x, -1.0, 1.0)
Clamp(x) ==
    IF RatLt(Rat(1, 1), x) THEN Rat(1, 1)
    ELSE IF RatLt(x, Rat(-1, 1)) THEN Rat(-1, 1) ELSE x

\* the layout of a jog frame f for the moveJog call c, whatever its length
JogLayout(f, c) ==
    /\ Len(f) >= 17
    /\ f[1] = \H41 /\ f[2] = \H54
    /\ f[3] = \H90
    /\ f[4] = \H07 /\ f[5] = \He8
    /\ f[6] = c.can_id
    /\ f[7] = \H08
    /\ f[8] = \H05 /\ f[9] = \H70
    /\ f[10] = \H00 /\ f[11] = \H00 /\ f[12] = \H07
    /\ f[13] = c.flag
    /\ f[14] * 256 + f[15] = CodeOf(c.speed)
    /\ f[14] \in Bytes /\ f[15] \in Bytes
    /\ f[Len(f) - 1] = \H0d /\ f[Len(f)] = \H0a

---------------------------------------------------------------------------
(* C1 *)

\* C1: whenever processCANMessage accepts a frame, the speed it passes to
\* moveMotor is clamp(s / 127, -1.0, 1.0), s being payload byte 0 read as a
\* signed 8-bit integer; the motor id is the identifier's low nibble.
C1_BridgeSpeedSigned ==
    (pc = "polled" /\ Called) =>
        /\ Entry.can_id = message.identifier % 16
        /\ RatEq(Entry.speed, Clamp(Rat(Signed8(message.data0), 127)))

---------------------------------------------------------------------------
(* C2 *)

\* C2 as amended: the speed code of a jog frame is 0x7fff for speed 0.0,
\* 0x8000 + t for speed > 0.0 and 0x7fff + t for speed < 0.0, where t is
\* speed * 3283 truncated toward zero: |t| <= |speed * 3283| < |t| + 1 and
\* t has the sign of the speed.
C2_SpeedCodeTruncated ==
    Jogged =>
        LET sp == Jog.speed
            x == sp.num * SpeedScale
        IN  /\ sp.num = 0 => Code16 = \H7fff
            /\ sp.num > 0 =>
                LET t == Code16 - \H8000
                IN  t >= 0 /\ t * sp.den <= x /\ x < (t + 1) * sp.den
            /\ sp.num < 0 =>
                LET t == Code16 - \H7fff
                IN  t <= 0 /\ (t - 1) * sp.den < x /\ x <= t * sp.den

\* C2 as stated: the same with t = round(speed * 3283), round to nearest
C2_SpeedCodeRounded ==
    Jogged =>
        LET sp == Jog.speed
            x == sp.num * SpeedScale
        IN  /\ sp.num = 0 => Code16 = \H7fff
            /\ sp.num > 0 =>
                LET t == Code16 - \H8000
                IN  (2 * t - 1) * sp.den <= 2 * x /\ 2 * x <= (2 * t + 1) * sp.den
            /\ sp.num < 0 =>
                LET t == Code16 - \H7fff
                IN  (2 * t - 1) * sp.den <= 2 * x /\ 2 * x <= (2 * t + 1) * sp.den

\* jog at speed 3/16: 3/16 * 3283 = 615.56, and the frame carries 0x8000 + 615
C2_Witness ==
    /\ Jogged
    /\ RatEq(Jog.speed, Rat(3, 16))
    /\ Code16 = \H8000 + 615

---------------------------------------------------------------------------
(* C3 *)

\* C3 as amended: every jog hands the transport a frame of exactly 17 bytes:
\* marker 0x41 0x54, op-code 0x90, address bytes 0x07 0xe8, the motor id,
\* data length 0x08, payload 0x05 0x70, 0x00 0x00 0x07, the move flag, the
\* speed code big-endian, terminator 0x0d 0x0a.
C3_JogFrame17 ==
    Jogged => (Len(cmd) = 17 /\ JogLayout(cmd, Jog))

\* C3 as stated: the frame is exactly 20 bytes long
C3_JogFrame20 ==
    Jogged => (Len(cmd) = 20 /\ JogLayout(cmd, Jog))

\* a jog to motor 0x0E at speed -1/2 with the move flag set, written in full
C3_Witness ==
    /\ Jogged
    /\ Entry.fn = "moveJog"
    /\ Jog.can_id = \H0e /\ Jog.flag = 1 /\ RatEq(Jog.speed, Rat(-1, 2))
    /\ written = 17
    /\ cmd[6] = \H0e /\ cmd[13] = 1 /\ cmd[14] = \H79 /\ cmd[15] = \H96

---------------------------------------------------------------------------
(* C4 *)

\* C4: activate, deactivate and loadParameters write one frame of 10, 10 and
\* 17 bytes; every byte is fixed by the operation except byte 5 (counted
\* from 0), the motor id; the activate and deactivate frames of a motor
\* differ in exactly one byte, a payload byte.
C4_FixedFrames ==
    Called =>
        /\ Entry.fn = "activateMotor" =>
            /\ cmd = <<65, 84, 0, 7, 232, Entry.can_id, 1, 0, 13, 10>>
            /\ {i \in 1 .. 10 : cmd[i] # DeactivateCmd(Entry.can_id)[i]} = {7}
            /\ WriteCount = 1
        /\ Entry.fn = "deactivateMotor" =>
            /\ cmd = <<65, 84, 0, 7, 232, Entry.can_id, 0, 0, 13, 10>>
            /\ {i \in 1 .. 10 : cmd[i] # ActivateCmd(Entry.can_id)[i]} = {7}
            /\ WriteCount = 1
        /\ Entry.fn = "loadParams" =>
            /\ cmd = <<65, 84, 32, 7, 232, Entry.can_id, 8, 0,
                       196, 0, 0, 0, 0, 0, 0, 13, 10>>
            /\ WriteCount = 1

\* deactivate of motor 0x0D has written its 10 bytes
C4_Witness ==
    /\ Called
    /\ Entry.fn = "deactivateMotor"
    /\ Entry.can_id = \H0d
    /\ Len(cmd) = 10 /\ written = 10 /\ cmd[6] = \H0d /\ cmd[7] = 0

---------------------------------------------------------------------------
(* C5 *)

\* C5 as amended: with move flag 1 the speed code is 0x8CD3 (0x8000 + 3283)
\* for speed 1.0 and 0x732C (0x7fff - 3283) for speed -1.0, for every motor.
C5_FullScaleCodes ==
    (Jogged /\ Jog.flag = 1) =>
        /\ RatEq(Jog.speed, Rat(1, 1)) => Code16 = \H8cd3
        /\ RatEq(Jog.speed, Rat(-1, 1)) => Code16 = \H732c

\* C5 as stated: the codes are 0x80CD and 0x7294
C5_FullScaleCodesAsStated ==
    (Jogged /\ Jog.flag = 1) =>
        /\ RatEq(Jog.speed, Rat(1, 1)) => Code16 = \H80cd
        /\ RatEq(Jog.speed, Rat(-1, 1)) => Code16 = \H7294

\* jog(0x0C, -1.0, 1) has put 0x73 0x2C into the frame
C5_Witness ==
    /\ Jogged
    /\ Entry.fn = "moveJog"
    /\ Jog.can_id = \H0c /\ Jog.flag = 1 /\ RatEq(Jog.speed, Rat(-1, 1))
    /\ cmd[14] = \H73 /\ cmd[15] = \H2c

---------------------------------------------------------------------------
(* C6 *)

\* C6: every operation makes exactly one write; when the transport accepts
\* fewer bytes than the frame holds the operation returns failure and the
\* write is the last transport event of the call (no retry, no resend); when
\* it accepts the whole frame the operation returns success.
C6_ShortWriteFails ==
    Called =>
        /\ WriteCount = 1
        /\ events[2] = Write(written)
        /\ written < Len(cmd) =>
            /\ result = FALSE
            /\ \A i \in 3 .. Len(events) : events[i].ev = "delay"
        /\ written = Len(cmd) => result = TRUE

\* loadParams whose write accepted 5 of the 17 bytes
C6_Witness ==
    /\ Called
    /\ Entry.fn = "loadParams"
    /\ Len(cmd) = 17 /\ written = 5
    /\ result = FALSE
    /\ WriteCount = 1

---------------------------------------------------------------------------
(* C7 *)

\* C7: for a received frame whose identifier AND 0x0F is 0x0C, 0x0D or 0x0E
\* and whose payload length is at least 1, processCANMessage makes exactly
\* one moveMotor call, for that motor id; for any other frame, and when the
\* poll times out, it calls no encoder function and writes nothing.
C7_BridgeFilter ==
    pc = "polled" =>
        IF /\ message.ok
           /\ message.identifier % 16 \in {\H0c, \H0d, \H0e}
           /\ message.dlc >= 1
        THEN /\ Cardinality({i \in 1 .. Len(calls) : calls[i].fn = "moveMotor"}) = 1
             /\ Entry.fn = "moveMotor"
             /\ Entry.can_id = message.identifier % 16
             /\ \A i \in 1 .. Len(calls) : calls[i].fn \in {"moveMotor", "moveJog"}
             /\ WriteCount = 1
        ELSE /\ calls = <<>>
             /\ events = <<>>
             /\ cmd = <<>>
             /\ written = 0

\* identifier 0x1C with one payload byte reaches motor 0x0C
C7_Witness ==
    /\ pc = "polled"
    /\ message.ok /\ message.identifier = \H1c /\ message.dlc = 1
    /\ Called
    /\ Entry.fn = "moveMotor" /\ Entry.can_id = \H0c
    /\ cmd[6] = \H0c

---------------------------------------------------------------------------
(* C8 *)

\* C8 as amended: for two speeds in [-1.0, 1.0] of the same sign region,
\* speed1 < speed2 implies code(speed1) <= code(speed2), the codes read as
\* unsigned 16-bit values.
C8_WeaklyMonotone ==
    Jogged =>
        \A other \in Speeds :
            SameRegion(Jog.speed, other) =>
                /\ RatLt(Jog.speed, other) => Code16 <= CodeOf(other)
                /\ RatLt(other, Jog.speed) => CodeOf(other) <= Code16

\* C8 as stated: speed1 < speed2 implies code(speed1) < code(speed2)
C8_StrictlyMonotone ==
    Jogged =>
        \A other \in Speeds :
            SameRegion(Jog.speed, other) =>
                /\ RatLt(Jog.speed, other) => Code16 < CodeOf(other)
                /\ RatLt(other, Jog.speed) => CodeOf(other) < Code16

\* jog at 5/4096 carries the very code that 6/4096 is encoded to
C8_Witness ==
    /\ Jogged
    /\ RatEq(Jog.speed, Rat(5, FineDen))
    /\ Rat(6, FineDen) \in Speeds
    /\ Code16 = CodeOf(Rat(6, FineDen))
    /\ Code16 < CodeOf(Rat(1, 1))

---------------------------------------------------------------------------
(* C9 *)

\* C9: jog(id, 0.0, 0), stop(id) and moveAt(id, 0.0) each emit a jog frame
\* with move flag 0 and speed code 0x7fff; moveAt(id, speed) with a nonzero
\* speed emits a jog frame with move flag 1.
C9_ZeroSpeed ==
    Called =>
        LET zero ==
                /\ Len(cmd) >= 15
                /\ cmd[3] = \H90 /\ cmd[8] = \H05 /\ cmd[9] = \H70
                /\ cmd[6] = Entry.can_id
                /\ cmd[13] = 0
                /\ Code16 = \H7fff
        IN  /\ (Entry.fn = "moveJog" /\ Entry.speed.num = 0 /\ Entry.flag = 0) => zero
            /\ Entry.fn = "stopMotor" => zero
            /\ (Entry.fn = "moveMotor" /\ Entry.speed.num = 0) => zero
            /\ (Entry.fn = "moveMotor" /\ Entry.speed.num # 0) =>
                /\ Len(cmd) >= 15
                /\ cmd[3] = \H90 /\ cmd[8] = \H05 /\ cmd[9] = \H70
                /\ cmd[6] = Entry.can_id
                /\ cmd[13] = 1

\* moveMotor(0x0D, 0.0) has emitted the hold frame
C9_Witness ==
    /\ Called
    /\ Entry.fn = "moveMotor" /\ Entry.can_id = \H0d /\ Entry.speed.num = 0
    /\ cmd[13] = 0 /\ cmd[14] = \H7f /\ cmd[15] = \Hff

---------------------------------------------------------------------------
(* C10 *)

\* C10: a successful operation's transport steps are, in order, flush, one
\* write of the whole frame, flush, then only delays, adding up to the
\* operation's settle time, which has elapsed when it returns; the settle
\* time of activate and of loadParams exceeds that of deactivate, which is
\* at least that of jog; and no write happens while the settle time of the
\* previous fully written command is still running.
C10_OrderAndSettle ==
    /\ (Called /\ result) =>
        /\ Len(events) >= 4
        /\ events[1] = Flush
        /\ events[2] = Write(Len(cmd))
        /\ events[3] = Flush
        /\ \A i \in 4 .. Len(events) : events[i].ev = "delay" /\ events[i].arg > 0
        /\ TotalDelay(events) = SettleMs(Entry.fn)
        /\ settleDue = 0
        /\ Entry.fn \in {"activateMotor", "loadParams"} =>
            TotalDelay(events) > SettleMs("deactivateMotor")
        /\ Entry.fn = "deactivateMotor" =>
            /\ TotalDelay(events) < SettleMs("activateMotor")
            /\ TotalDelay(events) < SettleMs("loadParams")
            /\ TotalDelay(events) >= SettleMs("moveJog")
        /\ Entry.fn \in {"moveJog", "stopMotor", "moveMotor"} =>
            TotalDelay(events) <= SettleMs("deactivateMotor")
    /\ Called => early = 0
    /\ pc = "idle" => settleDue = 0

\* a bus frame's command is written in full after an earlier command, with
\* that command's settle time over
C10_Witness ==
    /\ pc = "polled"
    /\ sentBefore
    /\ Called /\ result
    /\ events = <<Flush, Write(17), Flush, Delay(10)>>
    /\ early = 0

=============================================================================
